---- MODULE Spec2Model ----
(***************************************************************************)
(* Cozy Comfort (src/web_server.py): the inventory ledger, the customer    *)
(* order workflow and the order status lifecycle, as the service layer     *)
(* issues them against the MySQL/InnoDB store.                             *)
(*                                                                         *)
(* The store is the three tables the handlers write (inventory, orders,    *)
(* order_items); users, products and distributor_sellers are only written  *)
(* by insert_sample_data and are fixed.  A request is a transaction: it    *)
(* works on a private view of the rows it has locked and the store changes *)
(* at its commit.  Every handler is a function from (transaction, store)   *)
(* to (transaction, store), one statement at a time (Exec); the sequential *)
(* specification runs a handler to its response in one action, the         *)
(* concurrent one interleaves the statements of two requests under         *)
(* InnoDB's row locks.                                                     *)
(*                                                                         *)
(* Abstractions: customer_name/customer_email and the timestamps are not   *)
(* modelled; stock levels are scaled down from the sample data; money is   *)
(* in thousandths of a currency unit on the wire and in cents once stored  *)
(* in a DECIMAL(10,2) column; the default isolation level of InnoDB        *)
(* (REPEATABLE READ) is assumed; gap locks are not modelled.               *)
(***************************************************************************)
EXTENDS Integers, Sequences, FiniteSets, TLC

VARIABLES inventory, orders, order_items, tx, ncalls

vars == <<inventory, orders, order_items, tx, ncalls>>

(***************************************************************************)
(* Bounds of the model.                                                    *)
(***************************************************************************)
MaxCalls == 3        \* requests issued in one behaviour

(***************************************************************************)
(* Fixed tables (insert_sample_data).                                      *)
(***************************************************************************)
NoUser == 0          \* SQL NULL in orders.confirmed_by_id

Users == {1, 2, 4}

UserTypes == {"manufacturer", "distributor", "seller"}

Products == {1, 2}

distributor_sellers == {[distributor_id |-> 2, seller_id |-> 4]}

InvRow(p, o, t, q) == [product_id |-> p, owner_id |-> o, owner_type |-> t, quantity |-> q]

\* Product 1 is stocked at every tier; product 2 only at the manufacturer
\* (as product 3 of the sample data).
SampleInventory ==
    << InvRow(1, 1, "manufacturer", 2),
       InvRow(2, 1, "manufacturer", 1),
       InvRow(1, 2, "distributor", 2),
       InvRow(1, 4, "seller", 1) >>

(***************************************************************************)
(* SQL on the inventory table (a sequence of rows in id order).            *)
(***************************************************************************)
RowKey(r) == <<r.product_id, r.owner_id, r.owner_type>>

KeysOf(tbl) == {RowKey(tbl[i]) : i \in DOMAIN tbl}

RowOfKey(tbl, k) == tbl[CHOOSE i \in DOMAIN tbl : RowKey(tbl[i]) = k]

\* WHERE product_id = p AND owner_id = o   (no owner_type in the predicate)
MatchesOwner(r, p, o) == r.product_id = p /\ r.owner_id = o

\* WHERE product_id = p AND owner_id = o AND owner_type = t
MatchesKey(r, p, o, t) == r.product_id = p /\ r.owner_id = o /\ r.owner_type = t

\* WHERE product_id = p AND owner_type = 'manufacturer'
MatchesManufacturer(r, p) == r.product_id = p /\ r.owner_type = "manufacturer"

\* UPDATE inventory SET quantity = quantity - n WHERE product_id = p AND owner_id = o
DecrementByOwner(tbl, p, o, n) ==
    [i \in DOMAIN tbl |->
        IF MatchesOwner(tbl[i], p, o)
        THEN [tbl[i] EXCEPT !.quantity = @ - n]
        ELSE tbl[i]]

\* an update that adds n to the quantity instead of replacing it
SetQuantityByOwner_Delta(tbl, p, o, n) ==
    [i \in DOMAIN tbl |->
        IF MatchesOwner(tbl[i], p, o)
        THEN [tbl[i] EXCEPT !.quantity = @ + n]
        ELSE tbl[i]]

\* UPDATE inventory SET quantity = n WHERE product_id = p AND owner_id = o
SetQuantityByOwner(tbl, p, o, n) ==
    [i \in DOMAIN tbl |->
        IF MatchesOwner(tbl[i], p, o)
        THEN [tbl[i] EXCEPT !.quantity = n]
        ELSE tbl[i]]

\* INSERT INTO inventory (...) VALUES (p, o, t, n)
\* ON DUPLICATE KEY UPDATE quantity = quantity + VALUES(quantity)
UpsertInventory(tbl, p, o, t, n) ==
    IF \E i \in DOMAIN tbl : MatchesKey(tbl[i], p, o, t)
    THEN [i \in DOMAIN tbl |->
            IF MatchesKey(tbl[i], p, o, t)
            THEN [tbl[i] EXCEPT !.quantity = @ + n]
            ELSE tbl[i]]
    ELSE Append(tbl, InvRow(p, o, t, n))

\* cursor.rowcount of an UPDATE: the rows whose values changed
RowsChanged(old, new) == Cardinality({i \in DOMAIN old : old[i] # new[i]})

RECURSIVE SumQuantity(_)
SumQuantity(rows) ==
    IF rows = <<>> THEN 0 ELSE Head(rows).quantity + SumQuantity(Tail(rows))

(***************************************************************************)
(* Money: request prices are JSON numbers; the columns are DECIMAL(10,2).  *)
(* Amounts are integers in thousandths on the wire, cents once stored     *)
(* (MySQL rounds half away from zero).                                     *)
(***************************************************************************)
ToDecimal2(m) == IF m >= 0 THEN (m + 5) \div 10 ELSE 0 - ((5 - m) \div 10)

\* total_amount += item['quantity'] * item['price'], over all the items
RECURSIVE SumAmount(_)
SumAmount(items) ==
    IF items = <<>> THEN 0
    ELSE Head(items).quantity * Head(items).price + SumAmount(Tail(items))

(***************************************************************************)
(* The store and a transaction's view of it.                               *)
(***************************************************************************)
Db == [inventory |-> inventory, orders |-> orders, order_items |-> order_items]

IdleTx ==
    [pc |-> "idle", op |-> "none", caller |-> [id |-> NoUser, type |-> "none"],
     product_id |-> 0, quantity |-> 0, order_id |-> 0, status |-> "none",
     items |-> <<>>, view |-> <<>>, locks |-> {}, olocks |-> {},
     distributor_id |-> NoUser, mfg_owner |-> NoUser, i |-> 0,
     qty_to_deduct |-> 0, rowcount |-> 0, ordUpd |-> <<>>,
     result |-> "none", pre |-> [inventory |-> <<>>, orders |-> <<>>, order_items |-> <<>>],
     during |-> {}]

\* The inventory a statement of transaction t reads and writes: the committed
\* rows, with the rows t holds locked as t left them, then the rows t inserted.
CurrentInventory(t, db) ==
    LET base == [i \in DOMAIN db.inventory |->
                    IF RowKey(db.inventory[i]) \in t.locks
                       /\ RowKey(db.inventory[i]) \in KeysOf(t.view)
                    THEN RowOfKey(t.view, RowKey(db.inventory[i]))
                    ELSE db.inventory[i]]
        added == SelectSeq(t.view,
                    LAMBDA r : RowKey(r) \in t.locks /\ RowKey(r) \notin KeysOf(db.inventory))
    IN  base \o added

\* conn.rollback(), or conn.close() without a commit: nothing reaches the store.
Respond(t, res) ==
    [t EXCEPT !.pc = "done", !.result = res, !.view = <<>>, !.locks = {}, !.olocks = {}]

Outcome(t, db) == [t |-> t, db |-> db]

\* a rollback that lets the statements of t reach the store
Rollback_Keep(t, db) == [db EXCEPT !.inventory = CurrentInventory(t, db)]

\* conn.rollback(): the store stays as committed
Rollback(t, db) == db

\* conn.commit() of the inventory statements of t
CommitInventory(t, db) == [db EXCEPT !.inventory = CurrentInventory(t, db)]

\* The keys a statement on (product, owner) locks: the rows it finds
OwnerKeys(inv, p, o) == {RowKey(inv[i]) : i \in {j \in DOMAIN inv : MatchesOwner(inv[j], p, o)}}

(***************************************************************************)
(* ManufacturerService.update_inventory                                    *)
(***************************************************************************)
update_inventory(t, db) ==
    LET cur == CurrentInventory(t, db)
        new == SetQuantityByOwner(cur, t.product_id, t.caller.id, t.quantity)
    IN  IF t.pc = "update"
        THEN Outcome([t EXCEPT !.view = new,
                               !.locks = @ \cup OwnerKeys(cur, t.product_id, t.caller.id),
                               !.rowcount = RowsChanged(cur, new),
                               !.pc = "commit"], db)
        ELSE Outcome(Respond(t, IF t.rowcount = 0 THEN "not_found" ELSE "success"),
                     CommitInventory(t, db))

(***************************************************************************)
(* The ledger transfers.                                                   *)
(***************************************************************************)
\* a stock check that only looks for the row, not at its quantity
InsufficientStock_RowOnly(rows, quantity) == rows = <<>>

\* if not inv or inv['quantity'] < quantity
InsufficientStock(rows, quantity) == rows = <<>> \/ rows[1].quantity < quantity

\* A second row left unread by fetchone() makes the next execute() raise
\* InternalError("Unread result found"), a mysql.connector.Error.
UnreadResult(rows) == Len(rows) > 1

\* a lookup that gives every seller the distributor of the sample data
AssignedDistributors_Default(seller) == {2}

\* SELECT distributor_id FROM distributor_sellers WHERE seller_id = %s
AssignedDistributors(seller) ==
    {ds.distributor_id : ds \in {x \in distributor_sellers : x.seller_id = seller}}

order_from_manufacturer(t, db) ==
    LET cur == CurrentInventory(t, db)
        mfg == SelectSeq(cur, LAMBDA r : MatchesManufacturer(r, t.product_id))
    IN  CASE t.pc = "select_source" ->
                IF InsufficientStock(mfg, t.quantity)
                THEN Outcome(Respond(t, "insufficient"), db)
                ELSE IF UnreadResult(mfg)
                THEN Outcome(Respond(t, "error"), db)
                ELSE Outcome([t EXCEPT !.view = cur,
                                       !.locks = @ \cup KeysOf(mfg),
                                       !.mfg_owner = mfg[1].owner_id,
                                       !.pc = "update_source"], db)
          [] t.pc = "update_source" ->
                Outcome([t EXCEPT !.view = DecrementByOwner(cur, t.product_id, t.mfg_owner, t.quantity),
                                  !.locks = @ \cup OwnerKeys(cur, t.product_id, t.mfg_owner),
                                  !.pc = "upsert_dest"], db)
          [] t.pc = "upsert_dest" ->
                Outcome([t EXCEPT !.view = UpsertInventory(cur, t.product_id, t.caller.id, "distributor", t.quantity),
                                  !.locks = @ \cup {<<t.product_id, t.caller.id, "distributor">>},
                                  !.pc = "commit"], db)
          [] OTHER ->
                Outcome(Respond(t, "success"), CommitInventory(t, db))

order_from_distributor(t, db) ==
    LET cur == CurrentInventory(t, db)
        dists == AssignedDistributors(t.caller.id)
        dist == IF t.pc = "select_source" /\ dists # {}
                THEN CHOOSE d \in dists : TRUE ELSE t.distributor_id
        src == SelectSeq(cur, LAMBDA r : MatchesKey(r, t.product_id, dist, "distributor"))
    IN  CASE t.pc = "select_source" ->
                IF dists = {}
                THEN Outcome(Respond(t, "not_assigned"), db)
                ELSE IF InsufficientStock(src, t.quantity)
                THEN Outcome(Respond([t EXCEPT !.distributor_id = dist], "insufficient"), db)
                ELSE Outcome([t EXCEPT !.view = cur,
                                       !.locks = @ \cup KeysOf(src),
                                       !.distributor_id = dist,
                                       !.pc = "update_source"], db)
          [] t.pc = "update_source" ->
                Outcome([t EXCEPT !.view = DecrementByOwner(cur, t.product_id, dist, t.quantity),
                                  !.locks = @ \cup OwnerKeys(cur, t.product_id, dist),
                                  !.pc = "upsert_dest"], db)
          [] t.pc = "upsert_dest" ->
                Outcome([t EXCEPT !.view = UpsertInventory(cur, t.product_id, t.caller.id, "seller", t.quantity),
                                  !.locks = @ \cup {<<t.product_id, t.caller.id, "seller">>},
                                  !.pc = "commit"], db)
          [] OTHER ->
                Outcome(Respond(t, "success"), CommitInventory(t, db))

(***************************************************************************)
(* SellerService.create_order                                              *)
(***************************************************************************)
\* SELECT COALESCE(SUM(quantity), 0) ... WHERE product_id = p AND
\*   ((owner_id = seller AND owner_type='seller') OR
\*    (owner_id = distributor AND owner_type='distributor'))
TotalStock(inv, p, seller, dist) ==
    SumQuantity(SelectSeq(inv,
        LAMBDA r : MatchesKey(r, p, seller, "seller") \/ MatchesKey(r, p, dist, "distributor")))

\* if total_stock < item['quantity']
OutOfStock(total_stock, quantity) == total_stock < quantity

\* a validation pass that stops after the first item
FailingItems_FirstOnly(items, inv, seller, dist) ==
    {k \in DOMAIN items :
        k = 1 /\ OutOfStock(TotalStock(inv, items[k].product_id, seller, dist),
                            items[k].quantity)}

\* The items the validation loop would reject; it returns at the first.
FailingItems(items, inv, seller, dist) ==
    {k \in DOMAIN items :
        OutOfStock(TotalStock(inv, items[k].product_id, seller, dist), items[k].quantity)}

\* a deduction that leaves the seller's own stock alone
DeductFromSeller_None(qty_to_deduct, seller_stock) == 0

\* deduct_from_seller = min(qty_to_deduct, seller_stock)
DeductFromSeller(qty_to_deduct, seller_stock) ==
    IF qty_to_deduct <= seller_stock THEN qty_to_deduct ELSE seller_stock

\* f"ORD-{datetime.now().strftime('%Y%m%d%H%M%S')}": one number per second
OrderNumber(clock) == clock

\* the row INSERT INTO orders adds; status and confirmed_by_id take the
\* column defaults ('pending', NULL)
NewOrder(t, clock) ==
    [order_number |-> OrderNumber(clock), seller_id |-> t.caller.id,
     distributor_id |-> t.distributor_id,
     total_amount |-> ToDecimal2(SumAmount(t.items)),
     status |-> "pending", confirmed_by_id |-> NoUser]

\* item_values = [(order_id, i['product_id'], i['quantity'], i['price']) for i in items]
NewOrderItems(items, order_id) ==
    [k \in DOMAIN items |->
        [order_id |-> order_id, product_id |-> items[k].product_id,
         quantity |-> items[k].quantity, unit_price |-> ToDecimal2(items[k].price)]]

\* the next turn of "for item in order_data['items']" of the deduction loop
NextItem(t) ==
    IF t.i < Len(t.items)
    THEN [t EXCEPT !.i = @ + 1, !.qty_to_deduct = t.items[t.i + 1].quantity,
                   !.pc = "deduct_seller"]
    ELSE [t EXCEPT !.pc = "persist"]

create_order(t, db, clock) ==
    LET cur == CurrentInventory(t, db)
        dists == AssignedDistributors(t.caller.id)
        dist == IF t.pc = "validate" /\ dists # {}
                THEN CHOOSE d \in dists : TRUE ELSE t.distributor_id
        item == t.items[t.i]
        seller_rows == SelectSeq(cur, LAMBDA r : MatchesOwner(r, item.product_id, t.caller.id))
        seller_stock == IF seller_rows = <<>> THEN 0 ELSE seller_rows[1].quantity
        deduct_from_seller == DeductFromSeller(t.qty_to_deduct, seller_stock)
        order_id == Len(db.orders) + 1
    IN  CASE t.pc = "validate" ->
                IF dists = {}
                THEN Outcome(Respond(t, "not_assigned"), db)
                ELSE IF FailingItems(t.items, cur, t.caller.id, dist) # {}
                THEN Outcome(Respond([t EXCEPT !.distributor_id = dist], "out_of_stock"),
                             Rollback(t, db))
                ELSE Outcome(NextItem([t EXCEPT !.distributor_id = dist, !.view = cur]), db)
          [] t.pc = "deduct_seller" ->
                IF UnreadResult(seller_rows)
                THEN Outcome(Respond(t, "error"), Rollback(t, db))
                ELSE LET u == [t EXCEPT
                                !.view = IF deduct_from_seller > 0
                                         THEN DecrementByOwner(cur, item.product_id, t.caller.id,
                                                               deduct_from_seller)
                                         ELSE cur,
                                !.locks = @ \cup KeysOf(seller_rows),
                                !.qty_to_deduct = IF deduct_from_seller > 0
                                                  THEN @ - deduct_from_seller ELSE @]
                     IN  IF u.qty_to_deduct > 0
                         THEN Outcome([u EXCEPT !.pc = "deduct_distributor"], db)
                         ELSE Outcome(NextItem(u), db)
          [] t.pc = "deduct_distributor" ->
                Outcome(NextItem([t EXCEPT
                            !.view = DecrementByOwner(cur, item.product_id, t.distributor_id,
                                                      t.qty_to_deduct),
                            !.locks = @ \cup OwnerKeys(cur, item.product_id, t.distributor_id)]),
                        db)
          [] OTHER ->
                IF \E k \in DOMAIN db.orders : db.orders[k].order_number = OrderNumber(clock)
                THEN Outcome(Respond(t, "error"), Rollback(t, db))
                ELSE Outcome(Respond(t, "success"),
                             [inventory |-> cur,
                              orders |-> Append(db.orders, NewOrder(t, clock)),
                              order_items |-> db.order_items \o NewOrderItems(t.items, order_id)])

(***************************************************************************)
(* OrderService.update_status                                              *)
(***************************************************************************)
\* a confirmation that does not look at the current status
StatusWhere_Any(row, status) == TRUE

\* the WHERE clause of the two UPDATE statements, beside id = %s
StatusWhere(row, status) == status = "confirmed" => row.status = "pending"

\* The value an assignment stores in the status ENUM column: the database
\* is created with COLLATE utf8mb4_unicode_ci, so a value that differs from
\* a member only by letter case is stored as that member.
EnumStatus(status) == IF status = "Confirmed" THEN "confirmed" ELSE status

\* a SET clause that records the caller on every status change
StatusSet_Always(row, status, user_id) ==
    [row EXCEPT !.status = status, !.confirmed_by_id = user_id]

\* the SET clause of the two UPDATE statements
StatusSet(row, status, user_id) ==
    IF status = "confirmed"
    THEN [row EXCEPT !.status = EnumStatus(status), !.confirmed_by_id = user_id]
    ELSE [row EXCEPT !.status = EnumStatus(status)]

\* a rowcount that counts the rows found (CLIENT_FOUND_ROWS)
RowsAffected_Found(matched, old, new) == IF matched THEN 1 ELSE 0

\* cursor.rowcount of an UPDATE of one row: MySQL counts the row only when a
\* value changed (the connection does not ask for CLIENT_FOUND_ROWS)
RowsAffected(matched, old, new) == IF matched /\ old # new THEN 1 ELSE 0

update_status(t, db) ==
    LET found == t.order_id \in DOMAIN db.orders
        row == db.orders[t.order_id]
        new == StatusSet(row, t.status, t.caller.id)
        matched == found /\ StatusWhere(row, t.status)
        rowcount == IF found THEN RowsAffected(matched, row, new) ELSE 0
    IN  IF t.pc = "update"
        THEN Outcome([t EXCEPT !.olocks = IF found THEN {t.order_id} ELSE {},
                               !.ordUpd = IF rowcount = 1 THEN <<new>> ELSE <<>>,
                               !.rowcount = rowcount,
                               !.pc = "commit"], db)
        ELSE Outcome(Respond(t, IF t.rowcount = 0 THEN "not_found" ELSE "success"),
                     IF t.ordUpd = <<>> THEN db
                     ELSE [db EXCEPT !.orders[t.order_id] = t.ordUpd[1]])

(***************************************************************************)
(* One statement of a request, and a request run to its response.          *)
(***************************************************************************)
Exec(t, db, clock) ==
    CASE t.op = "update_inventory" -> update_inventory(t, db)
      [] t.op = "order_from_manufacturer" -> order_from_manufacturer(t, db)
      [] t.op = "order_from_distributor" -> order_from_distributor(t, db)
      [] t.op = "create_order" -> create_order(t, db, clock)
      [] OTHER -> update_status(t, db)

RECURSIVE RunToEnd(_, _, _)
RunToEnd(t, db, clock) ==
    IF t.pc = "done" THEN Outcome(t, db)
    ELSE LET r == Exec(t, db, clock) IN RunToEnd(r.t, r.db, clock)

(***************************************************************************)
(* The routes: get_current_user trusts the X-User-ID and X-User-Type       *)
(* headers, and each route lets one role through before it reads the body. *)
(***************************************************************************)
Request(op, c) == [IdleTx EXCEPT !.op = op, !.caller = c]

update_mfg_inventory(c, p, q) ==
    IF c.type # "manufacturer"
    THEN Respond(Request("update_inventory", c), "unauthorized")
    ELSE [Request("update_inventory", c) EXCEPT
            !.product_id = p, !.quantity = q, !.pc = "update"]

order_from_mfg(c, p, q) ==
    IF c.type # "distributor"
    THEN Respond(Request("order_from_manufacturer", c), "unauthorized")
    ELSE [Request("order_from_manufacturer", c) EXCEPT
            !.product_id = p, !.quantity = q, !.pc = "select_source"]

order_from_dist(c, p, q) ==
    IF c.type # "seller"
    THEN Respond(Request("order_from_distributor", c), "unauthorized")
    ELSE [Request("order_from_distributor", c) EXCEPT
            !.product_id = p, !.quantity = q, !.pc = "select_source"]

create_seller_order(c, items) ==
    IF c.type # "seller"
    THEN Respond(Request("create_order", c), "unauthorized")
    ELSE [Request("create_order", c) EXCEPT !.items = items, !.pc = "validate"]

update_order_status(c, order_id, status) ==
    IF c.type \notin {"manufacturer", "distributor"}
    THEN Respond(Request("update_status", c), "unauthorized")
    ELSE [Request("update_status", c) EXCEPT
            !.order_id = order_id, !.status = status, !.pc = "update"]

(***************************************************************************)
(* Inputs.                                                                 *)
(***************************************************************************)
Caller(id, type) == [id |-> id, type |-> type]

\* The three users under their own role, the manufacturer's id under the
\* distributor role and the distributor's id under the seller role.
Callers ==
    {Caller(1, "manufacturer"), Caller(2, "distributor"), Caller(4, "seller"),
     Caller(1, "distributor"), Caller(2, "seller")}

Statuses == {"pending", "confirmed", "processing", "shipped", "delivered", "cancelled"}

Item(p, q, price) == [product_id |-> p, quantity |-> q, price |-> price]

\* price of the request line of product p (10.00 and 5.50), in thousandths
LinePrice(p) == IF p = 1 THEN 10000 ELSE 5500

ItemsOf(products, quantities) == {Item(p, q, LinePrice(p)) : p \in products, q \in quantities}

ItemLists(items) == {<<>>} \cup {<<a>> : a \in items} \cup {<<a, b>> : a \in items, b \in items}

\* The inputs of a specification: every operation takes its arguments from
\* these sets.
Inputs(callers, products, transfer_quantities, inventory_quantities, item_lists, order_ids, statuses) ==
    [callers |-> callers, products |-> products,
     transfer_quantities |-> transfer_quantities,
     inventory_quantities |-> inventory_quantities,
     item_lists |-> item_lists, order_ids |-> order_ids, statuses |-> statuses]

\* the ledger: every caller, both products, transfers that succeed, fail and
\* are negative, one order
LedgerInputs ==
    Inputs(Callers, Products, {-1, 1, 3}, {0, 3},
           {<<Item(1, 2, LinePrice(1))>>}, {1}, {"confirmed"})

\* customer orders: every list of at most two lines
OrderInputs ==
    Inputs({Caller(4, "seller"), Caller(2, "seller"), Caller(2, "distributor")},
           {1}, {1}, {3},
           ItemLists(ItemsOf(Products, {0, 2})), {1}, {"confirmed"})

\* the status lifecycle: every status, an order that exists and one that does not
StatusInputs ==
    Inputs({Caller(1, "manufacturer"), Caller(2, "distributor"), Caller(4, "seller")},
           {1}, {1}, {3},
           {<<Item(1, 2, LinePrice(1))>>}, {1, 2}, Statuses)

(***************************************************************************)
(* Actions.                                                                *)
(***************************************************************************)
Workers == {1, 2}

\* datetime.now(), in seconds: the second the newest order was created in,
\* or a later one
ClockReadings(ords) ==
    LET newest == IF ords = <<>> THEN 0 ELSE ords[Len(ords)].order_number
    IN  {newest, newest + 1}

Init ==
    /\ inventory = SampleInventory
    /\ orders = <<>>
    /\ order_items = <<>>
    /\ tx = [w \in Workers |-> IdleTx]
    /\ ncalls = 0

\* a request served from its first statement to its response, alone
Serve(w, r, clock) ==
    /\ tx[w].pc = "idle"
    /\ ncalls < MaxCalls
    /\ LET out == RunToEnd([r EXCEPT !.pre = Db], Db, clock)
       IN  /\ tx' = [tx EXCEPT ![w] = out.t]
           /\ inventory' = out.db.inventory
           /\ orders' = out.db.orders
           /\ order_items' = out.db.order_items
    /\ ncalls' = ncalls + 1

UpdateInventory(w, In) ==
    \E c \in In.callers, p \in In.products, q \in In.inventory_quantities :
        Serve(w, update_mfg_inventory(c, p, q), 0)

OrderFromManufacturer(w, In) ==
    \E c \in In.callers, p \in In.products, q \in In.transfer_quantities :
        Serve(w, order_from_mfg(c, p, q), 0)

OrderFromDistributor(w, In) ==
    \E c \in In.callers, p \in In.products, q \in In.transfer_quantities :
        Serve(w, order_from_dist(c, p, q), 0)

CreateOrder(w, In) ==
    \E c \in In.callers, items \in In.item_lists, clock \in ClockReadings(orders) :
        Serve(w, create_seller_order(c, items), clock)

UpdateOrderStatus(w, In) ==
    \E c \in In.callers, id \in In.order_ids, s \in In.statuses :
        Serve(w, update_order_status(c, id, s), 0)

\* the response has been sent: the worker is free for the next request
Return(w) ==
    /\ tx[w].pc = "done"
    /\ tx' = [v \in Workers |->
                IF v = w THEN IdleTx ELSE [tx[v] EXCEPT !.during = @ \ {w}]]
    /\ UNCHANGED <<inventory, orders, order_items, ncalls>>

\* requests served one at a time
Sequential(In) ==
    \/ UpdateInventory(1, In)
    \/ OrderFromManufacturer(1, In)
    \/ OrderFromDistributor(1, In)
    \/ CreateOrder(1, In)
    \/ UpdateOrderStatus(1, In)
    \/ Return(1)

Spec == Init /\ [][Sequential(LedgerInputs)]_vars

OrderSpec == Init /\ [][Sequential(OrderInputs)]_vars

StatusSpec == Init /\ [][Sequential(StatusInputs)]_vars

\* every request with the quantities its client form lets through: transfers
\* and order lines above zero, manufacturer stock at or above zero
PositiveInputs ==
    Inputs(Callers, Products, {1, 3}, {0, 3},
           ItemLists(ItemsOf(Products, {2})), {1}, {"confirmed"})

PositiveSpec == Init /\ [][Sequential(PositiveInputs)]_vars

(***************************************************************************)
(* Concurrent requests: one statement at a time, under row locks.          *)
(***************************************************************************)
\* statements on inventory that wait for no row lock
WantsInventory_NoLock(t) == {}

\* the inventory rows the next statement of t must find unlocked
WantsInventory(t) ==
    LET owner(p, o) == {<<p, o, ty>> : ty \in UserTypes}
    IN  CASE t.op = "update_inventory" /\ t.pc = "update" ->
                owner(t.product_id, t.caller.id)
          [] t.op = "order_from_manufacturer" /\ t.pc = "select_source" ->
                {<<t.product_id, o, "manufacturer">> : o \in Users}
          [] t.op = "order_from_manufacturer" /\ t.pc = "update_source" ->
                owner(t.product_id, t.mfg_owner)
          [] t.op = "order_from_manufacturer" /\ t.pc = "upsert_dest" ->
                {<<t.product_id, t.caller.id, "distributor">>}
          [] t.op = "order_from_distributor" /\ t.pc = "select_source" ->
                {<<t.product_id, d, "distributor">> : d \in AssignedDistributors(t.caller.id)}
          [] t.op = "order_from_distributor" /\ t.pc = "update_source" ->
                owner(t.product_id, t.distributor_id)
          [] t.op = "order_from_distributor" /\ t.pc = "upsert_dest" ->
                {<<t.product_id, t.caller.id, "seller">>}
          [] t.op = "create_order" /\ t.pc = "deduct_seller" ->
                owner(t.items[t.i].product_id, t.caller.id)
          [] t.op = "create_order" /\ t.pc = "deduct_distributor" ->
                owner(t.items[t.i].product_id, t.distributor_id)
          [] OTHER -> {}

\* an UPDATE of orders that waits for no row lock
WantsOrders_NoLock(t) == {}

\* the orders rows the next statement of t must find unlocked
WantsOrders(t) ==
    IF t.op = "update_status" /\ t.pc = "update" THEN {t.order_id} ELSE {}

\* w waits for a row lock that v holds
WaitsFor(w, v) ==
    /\ v # w
    /\ tx[w].pc \notin {"idle", "done"}
    /\ \/ tx[v].locks \cap WantsInventory(tx[w]) # {}
       \/ tx[v].olocks \cap WantsOrders(tx[w]) # {}

Blocked(w) == \E v \in Workers : WaitsFor(w, v)

\* the workers serving a request; each request keeps, in "during", the
\* workers whose request was being served at some moment of its own service
InFlight == {v \in Workers : tx[v].pc \notin {"idle", "done"}}

\* a request arrives at a free worker
Start(w, r) ==
    /\ tx[w].pc = "idle"
    /\ ncalls < MaxCalls
    /\ tx' = [v \in Workers |->
                IF v = w THEN [r EXCEPT !.pre = Db, !.during = InFlight]
                ELSE IF v \in InFlight THEN [tx[v] EXCEPT !.during = @ \cup {w}]
                ELSE tx[v]]
    /\ ncalls' = ncalls + 1
    /\ UNCHANGED <<inventory, orders, order_items>>

Requests(In) ==
    {update_mfg_inventory(c, p, q) :
        c \in In.callers, p \in In.products, q \in In.inventory_quantities}
    \cup {order_from_mfg(c, p, q) :
        c \in In.callers, p \in In.products, q \in In.transfer_quantities}
    \cup {order_from_dist(c, p, q) :
        c \in In.callers, p \in In.products, q \in In.transfer_quantities}
    \cup {create_seller_order(c, items) : c \in In.callers, items \in In.item_lists}
    \cup {update_order_status(c, id, s) :
        c \in In.callers, id \in In.order_ids, s \in In.statuses}

Receive(w, In) == \E r \in Requests(In) : Start(w, r)

\* the next statement of the request of worker w
Step(w) ==
    /\ tx[w].pc \notin {"idle", "done"}
    /\ ~Blocked(w)
    /\ \E clock \in IF tx[w].pc = "persist" THEN ClockReadings(orders) ELSE {0} :
        LET out == Exec(tx[w], Db, clock)
        IN  /\ tx' = [tx EXCEPT ![w] = out.t]
            /\ inventory' = out.db.inventory
            /\ orders' = out.db.orders
            /\ order_items' = out.db.order_items
    /\ UNCHANGED ncalls

\* InnoDB finds w and v waiting for each other and makes w the victim: its
\* statement raises error 1213, the handler rolls back and answers 500.
DeadlockAbort(w) ==
    /\ \E v \in Workers : WaitsFor(w, v) /\ WaitsFor(v, w)
    /\ tx' = [tx EXCEPT ![w] = Respond(tx[w], "error")]
    /\ UNCHANGED <<inventory, orders, order_items, ncalls>>

\* requests served by two workers at once
Concurrent(In) ==
    \E w \in Workers : Receive(w, In) \/ Step(w) \/ DeadlockAbort(w) \/ Return(w)

\* two confirmers (and a canceller) of the one order a seller creates
RaceInputs ==
    Inputs({Caller(1, "manufacturer"), Caller(2, "distributor"), Caller(4, "seller")},
           {1}, {1}, {3},
           {<<Item(1, 2, LinePrice(1))>>}, {1}, {"confirmed", "cancelled"})

RaceSpec == Init /\ [][Concurrent(RaceInputs)]_vars

\* transfers and orders on one product: a distributor and a seller, transfers
\* of one and of two units
LedgerRaceInputs ==
    Inputs({Caller(2, "distributor"), Caller(4, "seller")}, {1}, {1, 2}, {3},
           {<<Item(1, 2, LinePrice(1))>>}, {1}, {"confirmed"})

LedgerRaceSpec == Init /\ [][Concurrent(LedgerRaceInputs)]_vars

(***************************************************************************)
(* Properties.  A worker at "done" holds the request it served, the store  *)
(* as the request found it (pre) and the response (result).                *)
(***************************************************************************)
Transfers == {"order_from_manufacturer", "order_from_distributor"}

\* the quantity of product p over all the inventory rows
ProductTotal(inv, p) == SumQuantity(SelectSeq(inv, LAMBDA r : r.product_id = p))

\* the quantity owner o holds of product p under role ty (0 without a row)
StockOf(inv, p, o, ty) ==
    SumQuantity(SelectSeq(inv,
        LAMBDA r : r.product_id = p /\ r.owner_id = o /\ r.owner_type = ty))

HasRow(inv, p, o, ty) == <<p, o, ty>> \in KeysOf(inv)

\* the distributor a seller is assigned to (NoUser if none)
DistributorOf(seller) ==
    IF \E ds \in distributor_sellers : ds.seller_id = seller
    THEN (CHOOSE ds \in distributor_sellers : ds.seller_id = seller).distributor_id
    ELSE NoUser

\* C1: a successful transfer of a positive quantity, by any caller the route
\* lets through, leaves the total quantity of every product as it found it.
C1_Conservation ==
    \A w \in Workers :
        (/\ tx[w].pc = "done" /\ tx[w].op \in Transfers
         /\ tx[w].result = "success" /\ tx[w].quantity > 0)
        => \A p \in Products :
              ProductTotal(inventory, p) = ProductTotal(tx[w].pre.inventory, p)

\* C2: no inventory row holds a negative quantity (requests carry positive
\* transfer and line quantities and non-negative manufacturer stock).
C2_NonNegative == \A i \in DOMAIN inventory : inventory[i].quantity >= 0

\* the source row of a transfer, in the store the request found
SourceOwner(t) ==
    IF t.op = "order_from_manufacturer" THEN 1 ELSE DistributorOf(t.caller.id)

SourceType(t) ==
    IF t.op = "order_from_manufacturer" THEN "manufacturer" ELSE "distributor"

SourceShort(t) ==
    \/ ~HasRow(t.pre.inventory, t.product_id, SourceOwner(t), SourceType(t))
    \/ t.quantity > StockOf(t.pre.inventory, t.product_id, SourceOwner(t), SourceType(t))

\* a transfer that reached its stock check: the route let the caller through
\* and, for a seller, the seller has a distributor
ReachedStockCheck(t) ==
    /\ t.pc = "done" /\ t.op \in Transfers
    /\ t.result # "unauthorized"
    /\ t.op = "order_from_distributor" => DistributorOf(t.caller.id) # NoUser

\* C3: a transfer that asks for more than its source row holds, or whose
\* source row does not exist, answers insufficient stock and leaves the
\* inventory table as it was (no row changed, none created).
C3_InsufficientUnchanged ==
    \A w \in Workers :
        (ReachedStockCheck(tx[w]) /\ SourceShort(tx[w]))
        => /\ tx[w].result = "insufficient"
           /\ inventory = tx[w].pre.inventory

C3_Witness ==
    \E w \in Workers :
        /\ ReachedStockCheck(tx[w])
        /\ HasRow(tx[w].pre.inventory, tx[w].product_id, SourceOwner(tx[w]), SourceType(tx[w]))
        /\ tx[w].quantity >
             StockOf(tx[w].pre.inventory, tx[w].product_id, SourceOwner(tx[w]), SourceType(tx[w]))
        /\ tx[w].quantity > 0
        /\ tx[w].result = "insufficient"

\* a create_order that reached its validation pass: the route let the caller
\* through and the seller has a distributor
ReachedValidation(t) ==
    /\ t.pc = "done" /\ t.op = "create_order"
    /\ t.result # "unauthorized"
    /\ DistributorOf(t.caller.id) # NoUser

\* what the seller and the seller's distributor hold of product p
SellerStock(t, p) == StockOf(t.pre.inventory, p, t.caller.id, "seller")

DistributorStock(t, p) ==
    StockOf(t.pre.inventory, p, DistributorOf(t.caller.id), "distributor")

\* the lines of the request that ask for more than both hold together
ShortLines(t) ==
    {k \in DOMAIN t.items :
        SellerStock(t, t.items[k].product_id) + DistributorStock(t, t.items[k].product_id)
            < t.items[k].quantity}

StoreUnchanged(t) ==
    /\ inventory = t.pre.inventory
    /\ orders = t.pre.orders
    /\ order_items = t.pre.order_items

\* C4: when any line of an order asks for more than the seller and the
\* distributor hold together, at whatever position, the call fails and no
\* inventory row, order or order item is changed or created.
C4_OrderAtomicity ==
    \A w \in Workers :
        (ReachedValidation(tx[w]) /\ ShortLines(tx[w]) # {})
        => /\ tx[w].result = "out_of_stock"
           /\ StoreUnchanged(tx[w])

\* a two-line order whose first line is covered and whose second is not
C4_Witness ==
    \E w \in Workers :
        /\ ReachedValidation(tx[w])
        /\ ShortLines(tx[w]) = {2}
        /\ tx[w].items[1].quantity > 0
        /\ tx[w].result = "out_of_stock"

\* the units the lines of product p ask for (lines at or below zero ask for none)
RECURSIVE Requested(_, _)
Requested(items, p) ==
    IF items = <<>> THEN 0
    ELSE (IF Head(items).product_id = p /\ Head(items).quantity > 0
          THEN Head(items).quantity ELSE 0) + Requested(Tail(items), p)

Min(a, b) == IF a <= b THEN a ELSE b

\* C5: a successful order takes the q units it asks of a product (s held by
\* the seller, d by the distributor, s + d >= q) from the seller first:
\* afterwards the seller holds s - min(q, s) and the distributor
\* d - (q - min(q, s)).  Lines of one product are taken together.
C5_DeductionOrder ==
    \A w \in Workers :
        (ReachedValidation(tx[w]) /\ tx[w].result = "success")
        => \A p \in Products :
            LET q == Requested(tx[w].items, p)
                s == SellerStock(tx[w], p)
                d == DistributorStock(tx[w], p)
            IN  (q > 0 /\ s + d >= q)
                => /\ StockOf(inventory, p, tx[w].caller.id, "seller") = s - Min(q, s)
                   /\ StockOf(inventory, p, DistributorOf(tx[w].caller.id), "distributor")
                        = d - (q - Min(q, s))
                   /\ Len(order_items) = Len(tx[w].pre.order_items) + Len(tx[w].items)
                   /\ \A k \in DOMAIN tx[w].items :
                        order_items[Len(tx[w].pre.order_items) + k].quantity
                            = tx[w].items[k].quantity

\* an order served from both tiers: the seller's stock is used up and the rest
\* comes from the distributor
C5_Witness ==
    \E w \in Workers :
        /\ ReachedValidation(tx[w]) /\ tx[w].result = "success"
        /\ \E p \in Products :
            /\ SellerStock(tx[w], p) > 0
            /\ Requested(tx[w].items, p) > SellerStock(tx[w], p)
            /\ StockOf(inventory, p, tx[w].caller.id, "seller") = 0
            /\ StockOf(inventory, p, DistributorOf(tx[w].caller.id), "distributor")
                 = DistributorStock(tx[w], p) - (Requested(tx[w].items, p) - SellerStock(tx[w], p))
            /\ Len(order_items) = Len(tx[w].pre.order_items) + Len(tx[w].items)

\* C10: an order whose lines all have a quantity at or below zero (or that
\* has no line) fails and changes nothing in the store.
C10_ZeroItemRejection ==
    \A w \in Workers :
        (/\ ReachedValidation(tx[w])
         /\ \A k \in DOMAIN tx[w].items : tx[w].items[k].quantity <= 0)
        => /\ tx[w].result # "success"
           /\ StoreUnchanged(tx[w])

\* an update_status the route let through
ReachedUpdate(t) ==
    /\ t.pc = "done" /\ t.op = "update_status"
    /\ t.result # "unauthorized"

\* the order the request names, as the request found it
Found(t) == t.order_id \in DOMAIN t.pre.orders

StatusBefore(t) == t.pre.orders[t.order_id].status

\* the moves of pending -> confirmed -> processing -> shipped -> delivered,
\* and the moves to cancelled from a status that is not terminal
LifecycleEdges ==
    {<<"pending", "confirmed">>, <<"confirmed", "processing">>,
     <<"processing", "shipped">>, <<"shipped", "delivered">>}
    \cup {<<s, "cancelled">> : s \in {"pending", "confirmed", "processing", "shipped"}}

\* C7: an update_status leaves the status of the order as it was or moves it
\* along an edge of the lifecycle; never backwards, never past an edge, never
\* out of delivered or cancelled.
C7_LifecycleOnly ==
    \A w \in Workers :
        (ReachedUpdate(tx[w]) /\ Found(tx[w]))
        => \/ orders[tx[w].order_id].status = StatusBefore(tx[w])
           \/ <<StatusBefore(tx[w]), orders[tx[w].order_id].status>> \in LifecycleEdges

\* C8: a confirmation succeeds only on an order that is pending; on an order
\* in any other status, or on no order, it answers the not-found error and
\* leaves status and confirmed_by_id of every order as they were.
C8_ConfirmCompareAndSet ==
    \A w \in Workers :
        (ReachedUpdate(tx[w]) /\ tx[w].status = "confirmed")
        => LET pending == Found(tx[w]) /\ StatusBefore(tx[w]) = "pending"
           IN  /\ tx[w].result = "success" => pending
               /\ ~pending => /\ tx[w].result = "not_found"
                              /\ orders = tx[w].pre.orders

\* a confirmation refused on an order that is past pending
C8_Witness ==
    \E w \in Workers :
        /\ ReachedUpdate(tx[w]) /\ tx[w].status = "confirmed"
        /\ Found(tx[w]) /\ StatusBefore(tx[w]) \notin {"pending", "confirmed"}
        /\ tx[w].result = "not_found"

\* C9: an update_status to the status the order already has answers the
\* not-found error, whatever the status, and changes no order.
C9_NoOpIsError ==
    \A w \in Workers :
        (ReachedUpdate(tx[w]) /\ Found(tx[w]) /\ StatusBefore(tx[w]) = tx[w].status)
        => /\ tx[w].result = "not_found"
           /\ orders = tx[w].pre.orders

\* a shipped order set to shipped again
C9_Witness ==
    \E w \in Workers :
        /\ ReachedUpdate(tx[w]) /\ Found(tx[w])
        /\ tx[w].status = "shipped" /\ StatusBefore(tx[w]) = "shipped"
        /\ tx[w].result = "not_found"

\* two confirmations of one order by different users, both received while
\* the order was pending, both answered
ConfirmRace(w, v) ==
    /\ w # v
    /\ ReachedUpdate(tx[w]) /\ ReachedUpdate(tx[v])
    /\ tx[w].status = "confirmed" /\ tx[v].status = "confirmed"
    /\ tx[w].order_id = tx[v].order_id
    /\ tx[w].caller.id # tx[v].caller.id
    /\ Found(tx[w]) /\ StatusBefore(tx[w]) = "pending"
    /\ Found(tx[v]) /\ StatusBefore(tx[v]) = "pending"

\* C6: of two concurrent confirmations of a pending order by different users
\* exactly one succeeds, the order is confirmed by that user, and the other
\* gets the not-found error, in every interleaving.
C6_ConfirmRace ==
    \A w, v \in Workers :
        ConfirmRace(w, v)
        => \/ /\ tx[w].result = "success" /\ tx[v].result = "not_found"
              /\ orders[tx[w].order_id].status = "confirmed"
              /\ orders[tx[w].order_id].confirmed_by_id = tx[w].caller.id
           \/ /\ tx[v].result = "success" /\ tx[w].result = "not_found"
              /\ orders[tx[w].order_id].status = "confirmed"
              /\ orders[tx[w].order_id].confirmed_by_id = tx[v].caller.id

\* the race run: the second worker's confirmation was the one that won
C6_Witness ==
    /\ ConfirmRace(1, 2)
    /\ tx[2].result = "success" /\ tx[1].result = "not_found"
    /\ orders[tx[1].order_id].confirmed_by_id = tx[2].caller.id

\* a create_order that answered success
OrderCreated(t) == ReachedValidation(t) /\ t.result = "success"

\* the lines of a request that ask for at least one unit
PositiveLines(items) == SelectSeq(items, LAMBDA it : it.quantity > 0)

\* the order_items rows the last call added
AddedItems(t) == SubSeq(order_items, Len(t.pre.order_items) + 1, Len(order_items))

\* C11: a successful order persists an order_items row for its lines above
\* zero only, and its total counts those lines only.
C11_NonPositiveExcluded ==
    \A w \in Workers :
        OrderCreated(tx[w])
        => /\ Len(AddedItems(tx[w])) = Len(PositiveLines(tx[w].items))
           /\ \A k \in DOMAIN AddedItems(tx[w]) : AddedItems(tx[w])[k].quantity > 0
           /\ orders[Len(orders)].total_amount
                = ToDecimal2(SumAmount(PositiveLines(tx[w].items)))

\* order lines at the list prices and at a price with a third decimal (1.004)
PriceInputs ==
    Inputs({Caller(4, "seller"), Caller(2, "distributor")}, {1}, {1}, {3},
           ItemLists({Item(1, q, price) : q \in {1, 2}, price \in {LinePrice(1), 1004}}),
           {1}, {"confirmed"})

PriceSpec == Init /\ [][Sequential(PriceInputs)]_vars

\* quantity * unit_price over order_items rows, in cents
RECURSIVE LineSum(_)
LineSum(rows) ==
    IF rows = <<>> THEN 0
    ELSE Head(rows).quantity * Head(rows).unit_price + LineSum(Tail(rows))

ItemsOfOrder(id) == SelectSeq(order_items, LAMBDA r : r.order_id = id)

\* C12: the total_amount of every order is the sum of quantity * unit_price
\* over its order_items rows, to the cent.
C12_TotalIsLineSum ==
    \A id \in DOMAIN orders : orders[id].total_amount = LineSum(ItemsOfOrder(id))

\* a seller request, past the route, of a seller with no distributor_sellers row
UnassignedSeller(t) ==
    /\ t.pc = "done" /\ t.op \in {"create_order", "order_from_distributor"}
    /\ t.result # "unauthorized"
    /\ DistributorOf(t.caller.id) = NoUser

\* C13: create_order and order_from_distributor of a seller without a
\* distributor answer not-assigned, whatever the stock, and change no
\* inventory row, order or order item.
C13_UnassignedSeller ==
    \A w \in Workers :
        UnassignedSeller(tx[w])
        => /\ tx[w].result = "not_assigned"
           /\ StoreUnchanged(tx[w])

\* an unassigned seller asks for more than any distributor holds
C13_Witness ==
    \E w \in Workers :
        /\ UnassignedSeller(tx[w])
        /\ tx[w].op = "order_from_distributor"
        /\ \A i \in DOMAIN inventory : inventory[i].quantity < tx[w].quantity
        /\ tx[w].result = "not_assigned"

\* a create_order that failed after its validation pass
FailedAfterValidation(t) == ReachedValidation(t) /\ t.result = "error"

\* C14: a create_order that fails after validation (its order number is
\* already taken) answers an error, and inventory, orders and order items are
\* as the call found them; no two orders ever share an order number.
C14_WholeOrderRollback ==
    /\ \A w \in Workers : FailedAfterValidation(tx[w]) => StoreUnchanged(tx[w])
    /\ \A i, j \in DOMAIN orders :
            orders[i].order_number = orders[j].order_number => i = j

\* an order that passed validation and had stock to deduct, made in the
\* second of an earlier order
C14_Witness ==
    \E w \in Workers :
        /\ FailedAfterValidation(tx[w])
        /\ ShortLines(tx[w]) = {}
        /\ \E k \in DOMAIN tx[w].items : tx[w].items[k].quantity > 0
        /\ orders # <<>>

\* what the source row of a transfer held when the request arrived
SourceBefore(t) == StockOf(t.pre.inventory, t.product_id, SourceOwner(t), SourceType(t))

\* two answered transfers of the same kind and product, served at the same
\* time, that the source could serve one by one but not both
TransferRace(w, v) ==
    /\ w # v /\ v \in tx[w].during
    /\ ReachedStockCheck(tx[w]) /\ ReachedStockCheck(tx[v])
    /\ tx[w].op = tx[v].op /\ tx[w].product_id = tx[v].product_id
    /\ SourceOwner(tx[w]) = SourceOwner(tx[v])
    /\ SourceBefore(tx[w]) = SourceBefore(tx[v])
    /\ tx[w].quantity > 0 /\ tx[v].quantity > 0
    /\ tx[w].quantity <= SourceBefore(tx[w]) /\ tx[v].quantity <= SourceBefore(tx[w])
    /\ tx[w].quantity + tx[v].quantity > SourceBefore(tx[w])

\* w won the race against v
TransferWon(w, v) ==
    /\ tx[w].result = "success" /\ tx[v].result = "insufficient"
    /\ StockOf(inventory, tx[w].product_id, SourceOwner(tx[w]), SourceType(tx[w]))
         = SourceBefore(tx[w]) - tx[w].quantity

\* C15: of two concurrent transfers from one source row that holds enough
\* for either but not for both, exactly one succeeds, the other answers
\* insufficient stock, and the source is left with n minus the winner's
\* quantity, in every interleaving.
C15_TransfersSerialize ==
    \A w, v \in Workers :
        TransferRace(w, v) => TransferWon(w, v) \/ TransferWon(v, w)

\* the race run between a transfer of one unit and a transfer of two
C15_Witness ==
    \E w, v \in Workers :
        /\ TransferRace(w, v)
        /\ tx[w].during = {v} /\ tx[w].pre = tx[v].pre
        /\ tx[w].quantity # tx[v].quantity
        /\ TransferWon(w, v)

\* two orders that both succeeded, served at the same time on the same store
\* for sellers of one distributor
OrderRace(w, v) ==
    /\ w # v /\ v \in tx[w].during
    /\ OrderCreated(tx[w]) /\ OrderCreated(tx[v])
    /\ DistributorOf(tx[w].caller.id) = DistributorOf(tx[v].caller.id)
    /\ tx[w].pre.inventory = tx[v].pre.inventory

\* C16: two concurrent orders on one distributor both succeed only if the
\* stock of the seller and the distributor covers both: no order deducts
\* stock that another order took between its validation and its deduction.
C16_OrdersCovered ==
    \A w, v \in Workers :
        OrderRace(w, v)
        => \A p \in Products :
              Requested(tx[w].items, p) + Requested(tx[v].items, p)
                <= SellerStock(tx[w], p) + DistributorStock(tx[w], p)

\* the operations that lock inventory rows inside a transaction
LedgerOps == {"order_from_manufacturer", "order_from_distributor", "create_order"}

\* w and v each hold a row lock the other waits for
CrossWait(w, v) == WaitsFor(w, v) /\ WaitsFor(v, w)

\* C17: transfers and orders that all concern one product never reach a
\* state where two of them wait for each other's row lock.
C17_NoDeadlockOneProduct ==
    \A w, v \in Workers :
        (/\ tx[w].op \in LedgerOps /\ tx[v].op \in LedgerOps
         /\ \A k \in DOMAIN tx[w].items : tx[w].items[k].product_id = 1
         /\ \A k \in DOMAIN tx[v].items : tx[v].items[k].product_id = 1
         /\ tx[w].product_id \in {0, 1} /\ tx[v].product_id \in {0, 1})
        => ~CrossWait(w, v)

\* the role a transfer gives its destination row
DestType(t) == IF t.op = "order_from_manufacturer" THEN "distributor" ELSE "seller"

\* a transfer of a positive quantity that answered success
Transferred(t) ==
    /\ t.pc = "done" /\ t.op \in Transfers
    /\ t.result = "success" /\ t.quantity > 0

RowsOfKey(inv, k) == {i \in DOMAIN inv : RowKey(inv[i]) = k}

\* C18: after a successful transfer of q the destination (product, caller,
\* role) has exactly one row, holding what it held before plus q (q if there
\* was no row); and no two inventory rows ever share a (product, owner, role).
C18_UpsertDestination ==
    /\ \A w \in Workers :
        Transferred(tx[w])
        => LET t == tx[w]
               k == <<t.product_id, t.caller.id, DestType(t)>>
           IN  /\ Cardinality(RowsOfKey(inventory, k)) = 1
               /\ StockOf(inventory, k[1], k[2], k[3])
                    = StockOf(t.pre.inventory, k[1], k[2], k[3]) + t.quantity
    /\ \A i, j \in DOMAIN inventory : RowKey(inventory[i]) = RowKey(inventory[j]) => i = j

\* the request of t is a confirmation that succeeded on order id
ConfirmedBy(t, id) ==
    /\ t.op = "update_status" /\ t.status = "confirmed"
    /\ t.result = "success" /\ t.order_id = id

\* C19: confirmed_by_id of an order is written by a successful confirmation
\* only, which sets it to the caller; every other answered request, a status
\* change to another target and a refused confirmation included, leaves it
\* as it was, and a new order has none.
C19_AttributionOnlyOnConfirm ==
    \A w \in Workers :
        tx[w].pc = "done"
        => /\ \A id \in DOMAIN tx[w].pre.orders :
                orders[id].confirmed_by_id =
                    IF ConfirmedBy(tx[w], id) THEN tx[w].caller.id
                    ELSE tx[w].pre.orders[id].confirmed_by_id
           /\ \A id \in DOMAIN orders \ DOMAIN tx[w].pre.orders :
                orders[id].confirmed_by_id = NoUser

\* a confirmed order moved on by another user: the attribution stays
C19_Witness ==
    \E w \in Workers :
        /\ ReachedUpdate(tx[w]) /\ Found(tx[w])
        /\ tx[w].status \notin {"confirmed", StatusBefore(tx[w])}
        /\ tx[w].result = "success"
        /\ tx[w].pre.orders[tx[w].order_id].confirmed_by_id \notin {NoUser, tx[w].caller.id}
        /\ orders[tx[w].order_id].status = tx[w].status

\* the manufacturer's stock form: both products and a product id (9) that no
\* inventory row carries; user 1 also under the distributor role
InventoryInputs ==
    Inputs({Caller(1, "manufacturer"), Caller(1, "distributor"), Caller(2, "distributor")},
           {1, 2, 9}, {1}, {0, 3},
           {<<Item(1, 2, LinePrice(1))>>}, {1}, {"confirmed"})

InventorySpec == Init /\ [][Sequential(InventoryInputs)]_vars

\* an update_inventory the route let through
ReachedInventoryUpdate(t) ==
    /\ t.pc = "done" /\ t.op = "update_inventory"
    /\ t.result # "unauthorized"

\* the rows the caller owns of the product of the request
OwnRows(t) ==
    {i \in DOMAIN t.pre.inventory :
        /\ t.pre.inventory[i].product_id = t.product_id
        /\ t.pre.inventory[i].owner_id = t.caller.id}

\* C20: update_inventory sets the quantity of the caller's rows of the
\* product to the given value (it does not add it), leaves every row of
\* another owner or another product as it was, creates no row and touches no
\* order; when the caller has no row of the product nothing changes and the
\* answer is the not-found error.
C20_UpdateInventoryFrame ==
    \A w \in Workers :
        ReachedInventoryUpdate(tx[w])
        => LET t == tx[w] IN
           /\ DOMAIN inventory = DOMAIN t.pre.inventory
           /\ \A i \in DOMAIN inventory :
                inventory[i] = IF i \in OwnRows(t)
                               THEN [t.pre.inventory[i] EXCEPT !.quantity = t.quantity]
                               ELSE t.pre.inventory[i]
           /\ orders = t.pre.orders /\ order_items = t.pre.order_items
           /\ OwnRows(t) = {} => t.result = "not_found"

\* the manufacturer raises a stock of 2 to 3, next to other owners' rows
C20_Witness ==
    \E w \in Workers :
        /\ ReachedInventoryUpdate(tx[w])
        /\ tx[w].result = "success"
        /\ tx[w].quantity > 0
        /\ \E i \in OwnRows(tx[w]) :
            /\ tx[w].pre.inventory[i].quantity > 0
            /\ tx[w].pre.inventory[i].quantity # tx[w].quantity
            /\ inventory[i].quantity = tx[w].quantity
        /\ \E i \in DOMAIN inventory :
            inventory[i].product_id = tx[w].product_id /\ i \notin OwnRows(tx[w])

\* the keys of the source and of the destination row of a transfer
SourceKey(t) == <<t.product_id, SourceOwner(t), SourceType(t)>>

DestKey(t) == <<t.product_id, t.caller.id, DestType(t)>>

\* C21: a successful transfer of q takes q from its source row, adds q to
\* its destination row (creating it if need be) and leaves every other
\* inventory row as it was, for every caller the route lets through.
C21_TransferFrame ==
    \A w \in Workers :
        Transferred(tx[w])
        => LET t == tx[w]
               src == SourceKey(t)
               dst == DestKey(t)
           IN  /\ StockOf(inventory, src[1], src[2], src[3])
                    = StockOf(t.pre.inventory, src[1], src[2], src[3]) - t.quantity
               /\ StockOf(inventory, dst[1], dst[2], dst[3])
                    = StockOf(t.pre.inventory, dst[1], dst[2], dst[3]) + t.quantity
               /\ KeysOf(inventory) = KeysOf(t.pre.inventory) \cup {dst}
               /\ \A i \in DOMAIN t.pre.inventory :
                    RowKey(t.pre.inventory[i]) \notin {src, dst}
                    => inventory[i] = t.pre.inventory[i]

\* what the seller and the distributor of the request hold of product p now
HeldNow(t, p) ==
    StockOf(inventory, p, t.caller.id, "seller")
        + StockOf(inventory, p, DistributorOf(t.caller.id), "distributor")

\* what they held when the request arrived
HeldBefore(t, p) == SellerStock(t, p) + DistributorStock(t, p)

\* C22: an order whose lines of one product ask, together, for more than the
\* seller and the distributor hold is rejected with nothing changed; an
\* order that succeeds never deducts more of a product than the two held.
C22_SummedLinesCovered ==
    \A w \in Workers :
        ReachedValidation(tx[w])
        => \A p \in Products :
            /\ Requested(tx[w].items, p) > HeldBefore(tx[w], p)
                => /\ tx[w].result = "out_of_stock"
                   /\ StoreUnchanged(tx[w])
            /\ tx[w].result = "success"
                => HeldBefore(tx[w], p) - HeldNow(tx[w], p) <= HeldBefore(tx[w], p)

\* the quantity under key k (0 without a row)
StockAt(inv, k) == StockOf(inv, k[1], k[2], k[3])

\* C23: no transfer, whatever its quantity, raises its source row or lowers
\* its destination row, and a transfer of a quantity at or below zero
\* changes no inventory row.
C23_OnlyDownstream ==
    \A w \in Workers :
        ReachedStockCheck(tx[w])
        => LET t == tx[w] IN
           /\ StockAt(inventory, SourceKey(t)) <= StockAt(t.pre.inventory, SourceKey(t))
           /\ StockAt(inventory, DestKey(t)) >= StockAt(t.pre.inventory, DestKey(t))
           /\ t.quantity <= 0 => inventory = t.pre.inventory

\* status values as the request body spells them: two members of the ENUM
\* and one of them with a capital letter
EnumInputs ==
    Inputs({Caller(1, "manufacturer"), Caller(2, "distributor"), Caller(4, "seller")},
           {1}, {1}, {3},
           {<<Item(1, 2, LinePrice(1))>>}, {1}, {"confirmed", "Confirmed", "shipped"})

EnumSpec == Init /\ [][Sequential(EnumInputs)]_vars

\* C24: an order is created pending and without a confirmer, and every order
\* whose status is confirmed has a confirmer.
C24_ConfirmedHasConfirmer ==
    /\ \A w \in Workers :
        OrderCreated(tx[w])
        => /\ orders[Len(orders)].status = "pending"
           /\ orders[Len(orders)].confirmed_by_id = NoUser
    /\ \A id \in DOMAIN orders :
        orders[id].status = "confirmed" => orders[id].confirmed_by_id # NoUser

====
